---- MODULE Spec2Model ----
(***************************************************************************)
(* Model of the conduit proxy's routing and connection fabric:             *)
(*   - the opaque TCP forwarder (transparency/tcp.rs: Proxy::serve,        *)
(*     Duplex, HalfDuplex, CopyBuf),                                       *)
(*   - the inbound recognizer and router binding (inbound.rs, bind.rs),    *)
(*   - the controller client stack and its background task                 *)
(*     (control/mod.rs: Background::bind, Backoff, LogErrors).             *)
(* Option<T> values are sequences of length 0 (None) or 1 (Some(x)).       *)
(***************************************************************************)
EXTENDS Integers, Sequences, FiniteSets, TLC

(* ------------------------------ bounds -------------------------------- *)

\* Number of bytes each peer may send before it closes.
MaxBytes == 2

\* Length of the CopyBuf array (4096 in CopyBuf::new, tcp.rs:231), scaled down.
BufLen == 2

\* Largest number of bytes a socket accepts in one write.
MaxCap == 2

(* ------------------------------ values -------------------------------- *)

None == <<>>

Some(x) == <<x>>

Option(S) == {None} \cup {Some(x) : x \in S}

Min(a, b) == IF a <= b THEN a ELSE b

\* The element of a one-element set.
Only(S) == CHOOSE x \in S : TRUE

\* Socket addresses (IP, port), compared by value.
Addrs == {"10.0.0.5:8080", "10.0.0.9:80", "127.0.0.1:4140"}

\* The two sockets of a forwarding session: the accepted one and the
\* connection to the original destination.
Sides == {"in", "out"}

Other(s) == IF s = "in" THEN "out" ELSE "in"

\* The bytes the peer of socket s sends, in order; all distinct, so that a
\* loss, a duplication or a reordering is visible.
Stream(s) == IF s = "in" THEN [i \in 1..(MaxBytes + 1) |-> i]
                         ELSE [i \in 1..(MaxBytes + 1) |-> 10 + i]

\* ctx::transport::Server, reduced to the fields the core reads.
ServerCtxs == [local : Addrs, orig_dst : Option(Addrs)]

VARIABLES
    accepted,       \* Option<ServerCtx>: the accepted TCP connection not yet served
    fut,            \* the future returned by Proxy::serve
    connects,       \* outbound connect attempts started
    half,           \* half[s]: the HalfDuplex owning socket s
    io,             \* io[s]: socket s as the kernel and the peer see it
    obs,            \* history of the sockets: what was read, EOFs, misuse flags
    tick,           \* what the last Duplex::poll did
    default_addr,   \* Inbound.default_addr
    req,            \* the request handed to Inbound::recognize
    key,            \* Option<Option<Key>>: the result of recognize, once called
    ctl,            \* the controller client: clock, Backoff, Reconnect, connect
    bg,             \* what the last poll of the controller background future did
    svc,            \* a route of the inbound router: its service, requests, connect
    ao,             \* the last AddOrigin::call: its request, what the inner got
    conn            \* the connect future of Proxy::serve, and what came of it

vars == <<accepted, fut, connects, half, io, obs, tick, default_addr, req, key,
          ctl, bg, svc, ao, conn>>

tcp_vars == <<accepted, fut, connects, half, io, obs, tick, conn>>

inbound_vars == <<default_addr, req, key>>

(* ------------------------------ CopyBuf ------------------------------- *)

CopyBuf_new == [buf |-> [i \in 1..BufLen |-> 0], read_pos |-> 0, write_pos |-> 0]

\* Mutant of reset: only write_pos is rewound.
reset_write_pos(b) == [b EXCEPT !.write_pos = 0]

reset(b) == [b EXCEPT !.read_pos = 0, !.write_pos = 0]

remaining(b) == b.write_pos - b.read_pos

has_remaining(b) == remaining(b) > 0

\* Mutant of bytes: the slice starts at 0 instead of read_pos.
bytes_from_start(b) == SubSeq(b.buf, 1, b.write_pos)

bytes(b) == SubSeq(b.buf, b.read_pos + 1, b.write_pos)

advance(b, cnt) == [b EXCEPT !.read_pos = b.read_pos + cnt]

remaining_mut(b) == Len(b.buf) - b.write_pos

advance_mut(b, cnt) == [b EXCEPT !.write_pos = b.write_pos + cnt]

\* BufMut::put_slice as read_buf uses it: copy data at write_pos.
put_slice(b, data) ==
    advance_mut([b EXCEPT !.buf = [i \in 1..Len(b.buf) |->
                    IF i > b.write_pos /\ i <= b.write_pos + Len(data)
                    THEN data[i - b.write_pos] ELSE b.buf[i]]],
                Len(data))

HalfDuplex_new == [buf |-> Some(CopyBuf_new), is_shutdown |-> FALSE]

Duplex_new == [s \in Sides |-> HalfDuplex_new]

(* ------------------------------ sockets ------------------------------- *)

\* A socket: rx are the bytes received and not yet read, fin the peer's
\* close behind them, sent the number of bytes the peer has sent; tx are
\* the bytes written to it, wcap the space a write finds, wr_zero a socket
\* whose write returns Ok(0), sd_ready whether shutdown() completes,
\* wr_shutdown whether its write side was shut down.
Socket_new ==
    [rx |-> <<>>, fin |-> FALSE, sent |-> 0, tx |-> <<>>, wcap |-> 0,
     wr_zero |-> FALSE, sd_ready |-> FALSE, wr_shutdown |-> FALSE]

Obs_new ==
    [rd |-> [s \in Sides |-> <<>>],             \* bytes read from socket s
     eof |-> [s \in Sides |-> FALSE],           \* a read of s returned 0
     read_after_eof |-> [s \in Sides |-> FALSE],
     write_after_eof |-> [s \in Sides |-> FALSE], \* a write of s's bytes after s's EOF
     sd_unflushed |-> [s \in Sides |-> FALSE], \* shutdown(s) called with bytes unwritten
     zero_write |-> [s \in Sides |-> FALSE],   \* a write of s's bytes returned 0
     sd_called |-> [s \in Sides |-> FALSE],    \* shutdown(s) was invoked in the last poll
     sd_again |-> [s \in Sides |-> FALSE],     \* shutdown(s) invoked with is_shutdown set
     assert_failed |-> [s \in Sides |-> FALSE]] \* an assertion of s's CopyBuf failed

Tick_new ==
    [polled |-> <<>>, ret |-> [s \in Sides |-> "-"], result |-> "-",
     err |-> "-", spins |-> 0]

\* AsyncRead::read_buf on socket s into half[s]'s buffer.
read_buf(W, s) ==
    LET sock == W.io[s]
        b == W.half[s].buf[1]
        W0 == [W EXCEPT !.obs.read_after_eof[s] = @ \/ W.obs.eof[s]]
    IN  IF sock.rx = <<>> /\ ~sock.fin
        THEN [poll |-> "NotReady", n |-> 0, W |-> W0]
        ELSE IF sock.rx = <<>>
        THEN [poll |-> "Ready", n |-> 0, W |-> [W0 EXCEPT !.obs.eof[s] = TRUE]]
        ELSE LET n == Min(Len(sock.rx), remaining_mut(b))
                 data == SubSeq(sock.rx, 1, n)
             IN  [poll |-> "Ready", n |-> n,
                  W |-> [W0 EXCEPT !.io[s].rx = SubSeq(sock.rx, n + 1, Len(sock.rx)),
                                   !.half[s].buf = Some(put_slice(b, data)),
                                   !.obs.rd[s] = @ \o data,
                                   !.obs.assert_failed[s] =
                                       @ \/ Len(b.buf) < b.write_pos + n]]

\* AsyncWrite::write_buf of half[s]'s buffer to the opposite socket.
write_buf(W, s) ==
    LET d == Other(s)
        sock == W.io[d]
        b == W.half[s].buf[1]
        W0 == [W EXCEPT !.obs.write_after_eof[s] = @ \/ W.obs.eof[s]]
    IN  IF sock.wr_zero
        THEN [poll |-> "Ready", n |-> 0, W |-> [W0 EXCEPT !.obs.zero_write[s] = TRUE]]
        ELSE IF sock.wcap = 0
        THEN [poll |-> "NotReady", n |-> 0, W |-> W0]
        ELSE LET n == Min(sock.wcap, remaining(b))
             IN  [poll |-> "Ready", n |-> n,
                  W |-> [W0 EXCEPT !.io[d].tx = @ \o SubSeq(bytes(b), 1, n),
                                   !.io[d].wcap = @ - n,
                                   !.half[s].buf = Some(advance(b, n)),
                                   !.obs.assert_failed[s] =
                                       @ \/ b.write_pos < b.read_pos + n]]

\* AsyncWrite::shutdown of socket d.
shutdown(W, d) ==
    LET W0 == [W EXCEPT !.obs.sd_unflushed[d] =
                            @ \/ (W.obs.rd[Other(d)] # W.io[d].tx),
                        !.obs.sd_called[d] = TRUE,
                        !.obs.sd_again[d] = @ \/ W.half[d].is_shutdown]
    IN  IF W.io[d].sd_ready
        THEN [poll |-> "Ready", W |-> [W0 EXCEPT !.io[d].wr_shutdown = TRUE]]
        ELSE [poll |-> "NotReady", W |-> W0]

(* ----------------------------- HalfDuplex ----------------------------- *)
\* Each step of a function takes the result of the call before it as a
\* parameter; Only({F(r) : r \in {call}}) is F(call) with call evaluated once.

write_zero == "WriteZero"

Ret(poll, err, W) == [poll |-> poll, err |-> err, W |-> W]

\* Mutant of read_done: the buffer is kept at EOF.
read_done_keeps_buf(r, s) ==
    IF r.poll = "NotReady" THEN Ret("NotReady", "-", r.W)
    ELSE Ret("Ready", "-", r.W)

\* HalfDuplex::read after read_buf returned r: try_ready!, then is_eof.
read_done(r, s) ==
    IF r.poll = "NotReady" THEN Ret("NotReady", "-", r.W)
    ELSE IF r.n = 0 THEN Ret("Ready", "-", [r.W EXCEPT !.half[s].buf = None])
    ELSE Ret("Ready", "-", r.W)

\* Mutant of read: the socket is read whether or not bytes remain unwritten.
read_unchecked(W, s) ==
    IF W.half[s].buf # None
    THEN Only({read_done(r, s) :
                 r \in {read_buf([W EXCEPT !.half[s].buf = Some(reset(@[1]))], s)}})
    ELSE Ret("Ready", "-", W)

read(W, s) ==
    IF W.half[s].buf # None /\ ~has_remaining(W.half[s].buf[1])
    THEN Only({read_done(r, s) :
                 r \in {read_buf([W EXCEPT
                                     !.half[s].buf = Some(reset(@[1])),
                                     !.obs.assert_failed[s] =
                                         @ \/ W.half[s].buf[1].read_pos
                                                 # W.half[s].buf[1].write_pos],
                                 s)}})
    ELSE Ret("Ready", "-", W)

RECURSIVE write_into(_, _)

\* Mutant of write_done: a zero-byte write is taken for a socket not ready.
write_done_zero_not_ready(r, s) ==
    IF r.poll = "NotReady" \/ r.n = 0 THEN Ret("NotReady", "-", r.W)
    ELSE write_into(r.W, s)

\* The body of the while loop of write_into, write_buf having returned r.
write_done(r, s) ==
    IF r.poll = "NotReady" THEN Ret("NotReady", "-", r.W)
    ELSE IF r.n = 0 THEN Ret("Err", write_zero, r.W)
    ELSE write_into(r.W, s)

write_into(W, s) ==
    IF W.half[s].buf # None /\ has_remaining(W.half[s].buf[1])
    THEN Only({write_done(r, s) : r \in {write_buf(W, s)}})
    ELSE Ret("Ready", "-", W)

\* Mutant of is_done: a half is done once it has seen EOF.
is_done_at_eof(h) == h.buf = None

is_done(h) == h.is_shutdown

RECURSIVE copy_into(_, _)

\* Mutant of copy_shutdown: the flag is set before shutdown() is awaited.
copy_shutdown_eager(sd, d) ==
    IF sd.poll = "NotReady"
    THEN Ret("NotReady", "-", [sd.W EXCEPT !.half[d].is_shutdown = TRUE])
    ELSE Ret("Ready", "-", [sd.W EXCEPT !.half[d].is_shutdown = TRUE])

\* copy_into, dst.io.shutdown() having returned sd.
copy_shutdown(sd, d) ==
    IF sd.poll = "NotReady" THEN Ret("NotReady", "-", sd.W)
    ELSE Ret("Ready", "-", [sd.W EXCEPT !.half[d].is_shutdown = TRUE])

\* copy_into, write_into having returned w in an iteration begun in W. An
\* iteration that neither returns nor changes anything is repeated forever:
\* the call does not return ("Diverge").
copy_written(W, w, s) ==
    IF w.poll # "Ready" THEN w
    ELSE IF w.W.half[s].buf = None /\ ~w.W.half[Other(s)].is_shutdown
    THEN Only({copy_shutdown(sd, Other(s)) : sd \in {shutdown(w.W, Other(s))}})
    ELSE IF w.W = W THEN Ret("Diverge", "-", W)
    ELSE copy_into(w.W, s)

\* copy_into, read having returned r.
copy_read(W, r, s) ==
    IF r.poll # "Ready" THEN r
    ELSE Only({copy_written(W, w, s) : w \in {write_into(r.W, s)}})

copy_into(W, s) == Only({copy_read(W, r, s) : r \in {read(W, s)}})

(* -------------------------------- Duplex ------------------------------ *)

\* Duplex::poll after both halves were polled: a and b are their results.
Duplex_both(a, b) ==
    IF b.poll \in {"Err", "Diverge"}
    THEN [poll |-> b.poll, W |-> b.W,
          tick |-> [polled |-> <<"in", "out">>,
                    ret |-> [in |-> a, out |-> b.poll],
                    result |-> b.poll, err |-> b.err, spins |-> 0]]
    ELSE [poll |-> IF is_done(b.W.half["in"]) /\ is_done(b.W.half["out"])
                   THEN "Ready" ELSE "NotReady",
          W |-> b.W,
          tick |-> [polled |-> <<"in", "out">>,
                    ret |-> [in |-> a, out |-> b.poll],
                    result |-> IF is_done(b.W.half["in"]) /\ is_done(b.W.half["out"])
                               THEN "Ready" ELSE "NotReady",
                    err |-> "-", spins |-> 0]]

\* Mutant of Duplex_first: the first direction is awaited with try_ready!,
\* so its NotReady ends the poll.
Duplex_first_try_ready(a) ==
    IF a.poll \in {"Err", "Diverge", "NotReady"}
    THEN [poll |-> a.poll, W |-> a.W,
          tick |-> [polled |-> <<"in">>, ret |-> [in |-> a.poll, out |-> "-"],
                    result |-> a.poll, err |-> a.err, spins |-> 0]]
    ELSE Only({Duplex_both(a.poll, b) : b \in {copy_into(a.W, "out")}})

\* Duplex::poll after half_in.copy_into(half_out) returned a: `?` returns
\* the error, and a call that does not return is the end of the poll.
Duplex_first(a) ==
    IF a.poll \in {"Err", "Diverge"}
    THEN [poll |-> a.poll, W |-> a.W,
          tick |-> [polled |-> <<"in">>, ret |-> [in |-> a.poll, out |-> "-"],
                    result |-> a.poll, err |-> a.err, spins |-> 0]]
    ELSE Only({Duplex_both(a.poll, b) : b \in {copy_into(a.W, "out")}})

Duplex_poll(W) == Only({Duplex_first(a) : a \in {copy_into(W, "in")}})

(* ---------------------------- Proxy::serve ---------------------------- *)

\* ctx::transport::Server::orig_dst_if_not_local: the original destination,
\* unless it is the listener's own address.
orig_dst_if_not_local(ctx) ==
    IF ctx.orig_dst # None /\ ctx.orig_dst[1] # ctx.local
    THEN ctx.orig_dst ELSE None

\* Mutant of serve: the original destination is used without the loop check.
serve_any_orig_dst(srv_ctx) ==
    IF srv_ctx.orig_dst = None
    THEN [fut |-> "ok", connects |-> 0]
    ELSE [fut |-> "connecting", connects |-> 1]

\* Proxy::serve: what the returned future is, and the connects it starts.
serve(srv_ctx) ==
    LET orig_dst == orig_dst_if_not_local(srv_ctx) IN
    IF orig_dst = None
    THEN [fut |-> "ok", connects |-> 0]
    ELSE [fut |-> "connecting", connects |-> 1]

\* connect.connect(): the future of the connect to the original
\* destination, begun at the instant 0 of its own clock and not yet polled.
TcpConnect_new == [inner |-> "pending", begun |-> 0, now |-> 0]

\* No connect future, no Duplex built, no connect error met.
Conn_new == [connect |-> None, duplexes |-> 0, err |-> "-"]

Serve ==
    /\ accepted # None
    /\ fut' = serve(accepted[1]).fut
    /\ connects' = connects + serve(accepted[1]).connects
    /\ conn' = [conn EXCEPT !.connect = IF serve(accepted[1]).connects > 0
                                        THEN Some(TcpConnect_new) ELSE None]
    /\ accepted' = None
    /\ UNCHANGED <<half, io, obs, tick, default_addr, req, key, ctl, bg, svc, ao>>

\* The state after a poll whose result is p.
Polled(p) ==
    /\ half' = p.W.half
    /\ io' = p.W.io
    /\ obs' = p.W.obs
    /\ tick' = p.tick
    /\ fut' = CASE p.poll = "Ready" -> "ok"
                [] p.poll = "Err" -> "err"
                [] p.poll = "Diverge" -> "spin"
                [] OTHER -> "duplex"

\* One poll of the Duplex future by the executor.
Poll ==
    /\ fut = "duplex"
    /\ \E p \in {Duplex_poll([half |-> half, io |-> io,
                                obs |-> [obs EXCEPT !.sd_called =
                                                        [s \in Sides |-> FALSE]]])} :
          Polled(p)
    /\ UNCHANGED <<accepted, connects, default_addr, req, key, ctl, bg, svc, ao, conn>>

\* A poll that does not return: one more turn of the loop of copy_into.
LoopIteration ==
    /\ fut = "spin"
    /\ tick' = [tick EXCEPT !.spins = 1 - @]
    /\ UNCHANGED <<accepted, fut, connects, half, io, obs, default_addr, req, key, ctl, bg, svc, ao, conn>>

(* ------------------------- the sockets' peers ------------------------- *)

PeerSend(s) ==
    /\ fut = "duplex" \/ (fut = "connecting" /\ s = "in")
    /\ ~io[s].fin
    /\ io[s].sent < MaxBytes
    /\ io' = [io EXCEPT ![s].rx = Append(@, Stream(s)[io[s].sent + 1]),
                        ![s].sent = @ + 1]
    /\ UNCHANGED <<accepted, fut, connects, half, obs, tick, default_addr, req, key, ctl, bg, svc, ao, conn>>

PeerClose(s) ==
    /\ fut = "duplex" \/ (fut = "connecting" /\ s = "in")
    /\ ~io[s].fin
    /\ io' = [io EXCEPT ![s].fin = TRUE]
    /\ UNCHANGED <<accepted, fut, connects, half, obs, tick, default_addr, req, key, ctl, bg, svc, ao, conn>>

Writable(s) ==
    /\ fut = "duplex"
    /\ \E n \in 1..MaxCap :
          /\ io[s].wcap < n
          /\ io' = [io EXCEPT ![s].wcap = n]
    /\ UNCHANGED <<accepted, fut, connects, half, obs, tick, default_addr, req, key, ctl, bg, svc, ao, conn>>

WriteFault(s) ==
    /\ fut = "duplex"
    /\ ~io[s].wr_zero
    /\ io' = [io EXCEPT ![s].wr_zero = TRUE]
    /\ UNCHANGED <<accepted, fut, connects, half, obs, tick, default_addr, req, key, ctl, bg, svc, ao, conn>>

ShutdownReady(s) ==
    /\ fut = "duplex"
    /\ ~io[s].sd_ready
    /\ io' = [io EXCEPT ![s].sd_ready = TRUE]
    /\ UNCHANGED <<accepted, fut, connects, half, obs, tick, default_addr, req, key, ctl, bg, svc, ao, conn>>

(* -------------------------- Inbound::recognize ------------------------ *)

Versions == {"HTTP_09", "HTTP_10", "HTTP_11", "HTTP_2"}

\* http::Request, reduced to its version and the Server Context extension.
Requests == [version : Versions, ctx : Option(ServerCtxs)]

\* Mutant of recognize: the default address takes precedence.
recognize_default_first(default, r) ==
    LET from_ctx == IF r.ctx # None THEN orig_dst_if_not_local(r.ctx[1]) ELSE None
        k == IF default # None THEN default ELSE from_ctx
    IN  IF k # None
        THEN Some(<<k[1], IF r.version = "HTTP_2" THEN "Http2" ELSE "Http1">>)
        ELSE None

\* Mutant of recognize: no fall-back to the default address.
recognize_no_default(default, r) ==
    LET k == IF r.ctx # None THEN orig_dst_if_not_local(r.ctx[1]) ELSE None
    IN  IF k # None
        THEN Some(<<k[1], IF r.version = "HTTP_2" THEN "Http2" ELSE "Http1">>)
        ELSE None

\* Mutant of recognize: the original destination is used without the loop
\* check.
recognize_any_orig_dst(default, r) ==
    LET from_ctx == IF r.ctx # None THEN r.ctx[1].orig_dst ELSE None
        k == IF from_ctx # None THEN from_ctx ELSE default
    IN  IF k # None
        THEN Some(<<k[1], IF r.version = "HTTP_2" THEN "Http2" ELSE "Http1">>)
        ELSE None

\* Mutant of recognize: the default address is only consulted for a request
\* that carries a Server Context.
recognize_requires_ctx(default, r) ==
    LET k == IF r.ctx = None THEN None
             ELSE IF orig_dst_if_not_local(r.ctx[1]) # None
                  THEN orig_dst_if_not_local(r.ctx[1]) ELSE default
    IN  IF k # None
        THEN Some(<<k[1], IF r.version = "HTTP_2" THEN "Http2" ELSE "Http1">>)
        ELSE None

\* Mutant of recognize: the tag is taken from the connection, HTTP/2 only
\* for an HTTP/2 request that carries a Server Context.
recognize_tag_by_ctx(default, r) ==
    LET from_ctx == IF r.ctx # None THEN orig_dst_if_not_local(r.ctx[1]) ELSE None
        k == IF from_ctx # None THEN from_ctx ELSE default
        proto == IF r.version = "HTTP_2" /\ r.ctx # None THEN "Http2" ELSE "Http1"
    IN  IF k # None THEN Some(<<k[1], proto>>) ELSE None

\* Inbound::recognize.
recognize(default, r) ==
    LET from_ctx == IF r.ctx # None THEN orig_dst_if_not_local(r.ctx[1]) ELSE None
        k == IF from_ctx # None THEN from_ctx ELSE default
        proto == IF r.version = "HTTP_2" THEN "Http2" ELSE "Http1"
    IN  IF k # None THEN Some(<<k[1], proto>>) ELSE None

\* The router hands the current request to the recognizer.
Recognize ==
    /\ key = None
    /\ key' = Some(recognize(default_addr, req))
    /\ UNCHANGED <<default_addr, req, tcp_vars, ctl, bg, svc, ao>>

\* The next request arrives.
NextRequest ==
    /\ key # None
    /\ req' \in Requests
    /\ key' = None
    /\ UNCHANGED <<default_addr, tcp_vars, ctl, bg, svc, ao>>

(* ----------------------- controller client stack ---------------------- *)

\* The last instant of the clock, in seconds.
MaxTime == 8

\* control::new: the timeout every controller connect is given.
control_new ==
    [connect_timeout |-> [dur |-> 3, description |-> "discovery connection"]]

\* Mutant of Background_bind: the connect is used without the timeout.
Background_bind_no_timeout(background) ==
    [connect |-> [timeout |-> None, inner |-> "LookupAddressAndConnect"],
     wait_dur |-> 5]

\* Background::bind: the parameters of the client stack
\* AddOrigin(Backoff(LogErrors(Reconnect(h2::Connect(connect))))), connect
\* being connect_timeout.apply_to(LookupAddressAndConnect).
Background_bind(background) ==
    [connect |-> [timeout |-> Some(background.connect_timeout),
                  inner |-> "LookupAddressAndConnect"],
     wait_dur |-> 5]

Client == Background_bind(control_new)

\* ReactorTimeout::new(dur): a timer that fires dur after now; task is the
\* wakeup a poll registered with it.
ReactorTimeout_new(dur, now) == [when |-> now + dur, task |-> FALSE]

\* ReactorTimeout::poll: Ready once the instant has come; before that the
\* current task is registered for a wakeup.
ReactorTimeout_poll(timer, now) ==
    IF timer.when <= now
    THEN [ready |-> TRUE, timer |-> timer]
    ELSE [ready |-> FALSE, timer |-> [timer EXCEPT !.task = TRUE]]

\* ReactorTimeout::reset: moves the instant; it is not a poll: a task that
\* was registered is dropped, and none is registered until the next poll.
ReactorTimeout_reset(timer, at) == [timer EXCEPT !.when = at, !.task = FALSE]

\* Reconnect::new at the instant now: no connection yet. started is when
\* the last connect attempt began, conn how that attempt stands, h2 the
\* readiness of the connected client, last_err when poll_ready last failed.
Reconnect_new(now) ==
    [now |-> now, state |-> "Idle", started |-> -1, conn |-> "-", h2 |-> "-",
     last_err |-> -1]

\* Backoff::new over a new Reconnect.
Backoff_new(wait_dur, now) ==
    [now |-> now,
     waiting |-> FALSE,
     timer |-> ReactorTimeout_new(wait_dur, now),
     state |-> Reconnect_new(now).state,
     started |-> Reconnect_new(now).started,
     conn |-> Reconnect_new(now).conn,
     h2 |-> Reconnect_new(now).h2,
     last_err |-> Reconnect_new(now).last_err]

\* The result of a poll_ready of a layer below Backoff: B is the client
\* after it, started tells whether a connect attempt was begun, raised is
\* the error as Reconnect returned it and logged what was written to the log.
Polled_ready(ret, err, B, started) ==
    [ret |-> ret, err |-> err, raised |-> err, B |-> B, started |-> started,
     logged |-> <<>>]

\* Timeout<F>::poll where the wrapped future's state is inner: the inner's
\* result when it has completed, TimedOut once the deadline has elapsed.
Timeout_poll(timeout, inner, begun, now) ==
    CASE inner = "ok" -> [ret |-> "Ready", err |-> "-"]
      [] inner = "refused" -> [ret |-> "Err", err |-> "Connect(refused)"]
      [] OTHER -> IF timeout # None /\ now >= begun + timeout[1].dur
                  THEN [ret |-> "Err", err |-> "Connect(timed out)"]
                  ELSE [ret |-> "NotReady", err |-> "-"]

\* Reconnect::poll_ready returning the error err: back to Idle.
Reconnect_failed(B, err, started) ==
    Polled_ready("Err", err,
                 [B EXCEPT !.state = "Idle", !.conn = "-", !.h2 = "-",
                           !.last_err = B.now],
                 started)

\* Reconnect::poll_ready in state Connected: the h2 client's readiness.
Reconnect_connected(B, started) ==
    CASE B.h2 = "ready" -> Polled_ready("Ready", "-", B, started)
      [] B.h2 = "busy" -> Polled_ready("NotReady", "-", B, started)
      [] OTHER -> Reconnect_failed(B, "Inner", started)

\* Reconnect::poll_ready in state Connecting, the connect future having
\* returned c.
Reconnect_connecting(B, c, started) ==
    CASE c.ret = "Ready" ->
            Reconnect_connected([B EXCEPT !.state = "Connected"], started)
      [] c.ret = "Err" -> Reconnect_failed(B, c.err, started)
      [] OTHER -> Polled_ready("NotReady", "-", B, started)

\* Reconnect::poll_ready over a client whose connect future is connect:
\* Idle begins a connect attempt and polls it.
Reconnect_poll_ready(B, connect) ==
    CASE B.state = "Idle" ->
            Reconnect_connecting(
                [B EXCEPT !.state = "Connecting", !.started = B.now,
                          !.conn = "pending"],
                Timeout_poll(connect.timeout, "pending", B.now, B.now),
                TRUE)
      [] B.state = "Connecting" ->
            Reconnect_connecting(
                B, Timeout_poll(connect.timeout, B.conn, B.started, B.now),
                FALSE)
      [] OTHER -> Reconnect_connected(B, FALSE)

\* Mutant of LogErrors_polled: the error is returned without being logged.
LogErrors_polled_silent(r) == r

\* LogErrors::poll_ready, the inner having returned r: an error is logged
\* and returned.
LogErrors_polled(r) ==
    IF r.ret = "Err" THEN [r EXCEPT !.logged = <<r.err>>] ELSE r

LogErrors_poll_ready(B) ==
    Only({LogErrors_polled(r) : r \in {Reconnect_poll_ready(B, Client.connect)}})

\* Mutant of Backoff_polled: the timer is not re-armed after an error.
Backoff_polled_no_reset(r) ==
    IF r.ret = "Err"
    THEN [ret |-> "NotReady", inner |-> r.ret, err |-> r.err,
          started |-> r.started, logged |-> r.logged, raised |-> r.raised,
          B |-> [r.B EXCEPT !.waiting = TRUE]]
    ELSE [ret |-> r.ret, inner |-> r.ret, err |-> r.err,
          started |-> r.started, logged |-> r.logged, raised |-> r.raised, B |-> r.B]

\* Mutant of Backoff_polled: the inner's error is returned to the caller.
Backoff_polled_propagates(r) ==
    IF r.ret = "Err"
    THEN [ret |-> "Err", inner |-> r.ret, err |-> r.err,
          started |-> r.started, logged |-> r.logged, raised |-> r.raised,
          B |-> [r.B EXCEPT !.waiting = TRUE,
                            !.timer = ReactorTimeout_reset(
                                          @, r.B.now + Client.wait_dur)]]
    ELSE [ret |-> r.ret, inner |-> r.ret, err |-> r.err,
          started |-> r.started, logged |-> r.logged, raised |-> r.raised,
          B |-> r.B]

\* Backoff::poll_ready, the inner having returned r (the match).
Backoff_polled(r) ==
    IF r.ret = "Err"
    THEN [ret |-> "NotReady", inner |-> r.ret, err |-> r.err,
          started |-> r.started, logged |-> r.logged, raised |-> r.raised,
          B |-> [r.B EXCEPT !.waiting = TRUE,
                            !.timer = ReactorTimeout_reset(
                                          @, r.B.now + Client.wait_dur)]]
    ELSE [ret |-> r.ret, inner |-> r.ret, err |-> r.err,
          started |-> r.started, logged |-> r.logged, raised |-> r.raised, B |-> r.B]

\* Backoff::poll_ready returning while it waits for the timer.
Backoff_waits(B, t) ==
    [ret |-> "NotReady", inner |-> "-", err |-> "-", started |-> FALSE,
     logged |-> <<>>, raised |-> "-", B |-> [B EXCEPT !.timer = t.timer]]

\* Mutant of Backoff_poll_ready: waiting stays set once the timer fired.
Backoff_poll_ready_keeps_waiting(B) ==
    IF B.waiting /\ ~ReactorTimeout_poll(B.timer, B.now).ready
    THEN Backoff_waits(B, ReactorTimeout_poll(B.timer, B.now))
    ELSE Only({Backoff_polled(r) : r \in {LogErrors_poll_ready(B)}})

\* Backoff::poll_ready.
Backoff_poll_ready(B) ==
    IF B.waiting /\ ~ReactorTimeout_poll(B.timer, B.now).ready
    THEN Backoff_waits(B, ReactorTimeout_poll(B.timer, B.now))
    ELSE Only({Backoff_polled(r) :
                  r \in {LogErrors_poll_ready([B EXCEPT !.waiting = FALSE])}})

\* Mutant of Backoff_call: a request made while waiting is not forwarded.
Backoff_call_unless_waiting(B) ==
    [ret |-> IF B.state = "Connected" /\ ~B.waiting
             THEN "Sent" ELSE "NotReadyError",
     inner |-> IF B.waiting THEN "-" ELSE "call",
     err |-> "-", started |-> FALSE, logged |-> <<>>, raised |-> "-",
     B |-> B]

\* Backoff::call: the request goes to the inner, through LogErrors::call to
\* Reconnect::call, which hands it to a connected client and fails it else.
Backoff_call(B) ==
    [ret |-> IF B.state = "Connected" THEN "Sent" ELSE "NotReadyError",
     inner |-> "call", err |-> "-", started |-> FALSE, logged |-> <<>>,
     raised |-> "-", B |-> B]

\* What a call r made on the client B did, for the record of a poll.
Called(op, B, r) ==
    [op |-> op, at |-> B.now, waiting |-> B.waiting, timer |-> B.timer,
     state |-> B.state, conn |-> B.conn, begun |-> B.started,
     last_err |-> B.last_err, ret |-> r.ret, inner |-> r.inner,
     err |-> r.err, raised |-> r.raised, started |-> r.started,
     logged |-> r.logged,
     after |-> [waiting |-> r.B.waiting, timer |-> r.B.timer]]

(* ------------------------------ AddOrigin ----------------------------- *)

Schemes == {"http", "https"}

Authorities == {"controller:8086", "10.0.0.9:80"}

Paths == {"/", "/destination.Get", "/telemetry.Report?x=1"}

\* http::Uri as the http crate holds it: scheme is "None" and authority and
\* path_and_query are "" when the component is absent. A Uri is in origin
\* form (path only), absolute form, or authority form (authority only).
Uris ==
    [scheme : {"None"}, authority : {""}, path_and_query : Paths]
    \cup [scheme : Schemes, authority : Authorities,
          path_and_query : Paths \cup {""}]
    \cup [scheme : {"None"}, authority : Authorities, path_and_query : {""}]

HttpRequests ==
    [method : {"GET", "POST"}, uri : Uris,
     headers : {<<>>, <<"te: trailers">>}, body : {"b1", "b2"}]

\* Uri::has_path.
has_path(uri) == uri.path_and_query # "" \/ uri.scheme # "None"

\* impl From<Uri> for uri::Parts.
Parts_from(uri) ==
    [scheme |-> IF uri.scheme = "None" THEN None ELSE Some(uri.scheme),
     authority |-> IF uri.authority = "" THEN None ELSE Some(uri.authority),
     path_and_query |-> IF has_path(uri) THEN Some(uri.path_and_query) ELSE None]

\* Uri::from_parts: a scheme needs an authority and a path, an authority
\* with a path needs a scheme.
Uri_from_parts(src) ==
    IF src.scheme # None /\ src.authority = None
    THEN [ok |-> FALSE, err |-> "AuthorityMissing"]
    ELSE IF src.scheme # None /\ src.path_and_query = None
    THEN [ok |-> FALSE, err |-> "PathAndQueryMissing"]
    ELSE IF src.scheme = None /\ src.authority # None /\ src.path_and_query # None
    THEN [ok |-> FALSE, err |-> "SchemeMissing"]
    ELSE [ok |-> TRUE,
          uri |-> [scheme |-> IF src.scheme = None THEN "None" ELSE src.scheme[1],
                   authority |-> IF src.authority = None THEN ""
                                 ELSE src.authority[1],
                   path_and_query |-> IF src.path_and_query = None THEN ""
                                      ELSE src.path_and_query[1]]]

\* AddOrigin::new with the scheme and authority Background::bind gives it.
AddOrigin_new == [scheme |-> "http", authority |-> "controller:8086"]

\* AddOrigin::call once Uri::from_parts returned r: expect("valid uri")
\* panics on Err, else the rebuilt request is handed to the inner service.
AddOrigin_rebuilt(r, request) ==
    IF r.ok
    THEN [panicked |-> FALSE, sent |-> <<[request EXCEPT !.uri = r.uri]>>]
    ELSE [panicked |-> TRUE, sent |-> <<>>]

\* AddOrigin::call.
AddOrigin_call(self, request) ==
    AddOrigin_rebuilt(
        Uri_from_parts([Parts_from(request.uri) EXCEPT
                            !.scheme = Some(self.scheme),
                            !.authority = Some(self.authority)]),
        request)

AddOrigin_idle == [req |-> None, sent |-> <<>>, panicked |-> FALSE]

\* A sub-loop issues a request through the client.
AddOriginCall(request) ==
    /\ ~ao.panicked
    /\ ao' = [req |-> Some(request),
              sent |-> AddOrigin_call(AddOrigin_new, request).sent,
              panicked |-> AddOrigin_call(AddOrigin_new, request).panicked]
    /\ UNCHANGED <<tcp_vars, inbound_vars, ctl, bg, svc>>

OriginNext == \E request \in HttpRequests : AddOriginCall(request)

(* ------------------- controller background future --------------------- *)

\* What one sub-loop does with the shared client in one poll: nothing, a
\* readiness check, a readiness check followed by a request when Ready, or
\* a request without a readiness check.
PollRpcOps == {"idle", "poll_ready", "poll_ready_call", "call"}

\* poll_rpc after its call r on the client B, calls being those made so far.
poll_rpc_called(op, B, r, calls) ==
    [B |-> r.B, calls |-> Append(calls, Called(op, B, r)), ret |-> r.ret]

\* poll_rpc after its readiness check p.
poll_rpc_ready(op, p) ==
    IF op = "poll_ready_call" /\ p.ret = "Ready"
    THEN Only({poll_rpc_called("call", p.B, r, p.calls) :
                  r \in {Backoff_call(p.B)}})
    ELSE p

\* discovery's and telemetry's poll_rpc(&mut client).
poll_rpc(B, op) ==
    CASE op = "idle" -> [B |-> B, calls |-> <<>>, ret |-> "-"]
      [] op = "call" ->
            Only({poll_rpc_called("call", B, r, <<>>) : r \in {Backoff_call(B)}})
      [] OTHER ->
            Only({poll_rpc_ready(op, p) :
                     p \in {Only({poll_rpc_called("poll_ready", B, r, <<>>) :
                                     r \in {Backoff_poll_ready(B)}})}})

\* Mutant of poll_fn_second: the closure returns when the discovery loop
\* did not find the client Ready.
poll_fn_second_try(d, t_op) ==
    IF d.ret \in {"NotReady", "NotReadyError"}
    THEN [ret |-> IF d.ret = "NotReady" THEN "NotReady" ELSE "Err",
          B |-> d.B, called |-> <<"disco">>, calls |-> d.calls,
          rets |-> <<d.ret>>]
    ELSE [ret |-> "NotReady", B |-> poll_rpc(d.B, t_op).B,
          called |-> <<"disco", "telemetry">>,
          calls |-> d.calls \o poll_rpc(d.B, t_op).calls,
          rets |-> <<d.ret, poll_rpc(d.B, t_op).ret>>]

\* The closure of poll_fn, disco.poll_rpc having returned d.
poll_fn_both(d, t) ==
    [ret |-> "NotReady", B |-> t.B, called |-> <<"disco", "telemetry">>,
     calls |-> d.calls \o t.calls, rets |-> <<d.ret, t.ret>>]

poll_fn_second(d, t_op) ==
    Only({poll_fn_both(d, t) : t \in {poll_rpc(d.B, t_op)}})

\* The closure of poll_fn: disco.poll_rpc, telemetry.poll_rpc, NotReady.
poll_fn(B, d_op, t_op) ==
    Only({poll_fn_second(d, t_op) : d \in {poll_rpc(B, d_op)}})

Bg_new == [polled |-> FALSE, ret |-> "-", called |-> <<>>, calls |-> <<>>,
           rets |-> <<>>, ops |-> <<>>]

\* The executor polls the background future.
BgPolled(p, d_op, t_op) ==
    /\ ctl' = p.B
    /\ bg' = [polled |-> TRUE, ret |-> p.ret, called |-> p.called,
              calls |-> p.calls, rets |-> p.rets, ops |-> <<d_op, t_op>>]

BgPoll ==
    /\ bg.ret \in {"-", "NotReady"}
    /\ \E d_op \in PollRpcOps : \E t_op \in PollRpcOps :
          \E p \in {poll_fn(ctl, d_op, t_op)} : BgPolled(p, d_op, t_op)
    /\ UNCHANGED <<tcp_vars, inbound_vars, svc, ao>>

\* Time passes.
ClockTick ==
    /\ ctl.now < MaxTime
    /\ ctl' = [ctl EXCEPT !.now = @ + 1]
    /\ UNCHANGED <<tcp_vars, inbound_vars, bg, svc, ao>>

\* The pending lookup and connect completes, or is refused.
ConnectDone(outcome) ==
    /\ ctl.state = "Connecting"
    /\ ctl.conn = "pending"
    /\ ctl' = [ctl EXCEPT !.conn = outcome,
                          !.h2 = IF outcome = "ok" THEN "ready" ELSE "-"]
    /\ UNCHANGED <<tcp_vars, inbound_vars, bg, svc, ao>>

\* The readiness of the connected HTTP/2 client changes: it is busy, ready
\* again, or its connection is lost.
H2Change(h) ==
    /\ ctl.state = "Connected"
    /\ ctl.h2 \in {"ready", "busy"}
    /\ ctl.h2 # h
    /\ ctl' = [ctl EXCEPT !.h2 = h]
    /\ UNCHANGED <<tcp_vars, inbound_vars, bg, svc, ao>>

\* The reactor fires Backoff's timer: the registered task is notified.
TimerFire ==
    /\ ctl.timer.task
    /\ ctl.timer.when <= ctl.now
    /\ ctl' = [ctl EXCEPT !.timer.task = FALSE]
    /\ UNCHANGED <<tcp_vars, inbound_vars, bg, svc, ao>>

ControlInit ==
    /\ ctl = Backoff_new(Client.wait_dur, 0)
    /\ bg = Bg_new
    /\ ao = AddOrigin_idle

ControlNext ==
    \/ BgPoll
    \/ ClockTick
    \/ \E outcome \in {"ok", "refused"} : ConnectDone(outcome)
    \/ \E h \in {"ready", "busy", "broken"} : H2Change(h)
    \/ TimerFire

(* ------------------------ binding a route's service ------------------- *)

\* The configured data-plane connect timeout, in seconds.
ConnectDeadline == 2

\* Requests callers may try to have outstanding beyond the in-flight cap.
MaxExcess == 2

MAX_IN_FLIGHT == 10000

Protocols == {"Http1", "Http2"}

\* Recognize::Key.
Keys == Addrs \X Protocols

\* Bind::bind_service: Reconnect over the telemetry-wrapped client, whose
\* connect is sensors.connect(transport::Connect::new(addr)).
Bind_bind_service(addr, protocol) ==
    [layer |-> "Reconnect",
     inner |-> [layer |-> "sensor::NewHttp",
                inner |-> [layer |-> "transparency::Client",
                           protocol |-> protocol,
                           connect |-> [layer |-> "sensor::Connect",
                                        inner |-> [layer |-> "transport::Connect",
                                                   addr |-> addr]]]]]

\* Buffer::new(service, executor): fails when the worker cannot be spawned.
Buffer_new(service, spawn_ok) ==
    IF spawn_ok THEN [ok |-> TRUE, value |-> [layer |-> "Buffer", inner |-> service]]
    ELSE [ok |-> FALSE, err |-> "SpawnError"]

InFlightLimit_new(inner, max) ==
    [layer |-> "InFlightLimit", max |-> max, inner |-> inner]

\* Mutant of Inbound_bind_service: the buffer is returned without the
\* in-flight limit.
Inbound_bind_service_unlimited(k, spawn_ok) ==
    IF Buffer_new(Bind_bind_service(k[1], k[2]), spawn_ok).ok
    THEN [ok |-> TRUE,
          value |-> Buffer_new(Bind_bind_service(k[1], k[2]), spawn_ok).value]
    ELSE [ok |-> FALSE, err |-> "Inbound"]

\* Mutant of Inbound_bind_service: a service is returned also when the
\* worker could not be spawned.
Inbound_bind_service_unchecked(k, spawn_ok) ==
    [ok |-> TRUE,
     value |-> InFlightLimit_new(
                   [layer |-> "Buffer", inner |-> Bind_bind_service(k[1], k[2])],
                   MAX_IN_FLIGHT)]

\* Inbound::bind_service(key), spawn_ok telling whether the executor can
\* spawn the buffer's worker.
Inbound_bind_service(k, spawn_ok) ==
    LET buffer == Buffer_new(Bind_bind_service(k[1], k[2]), spawn_ok) IN
    IF buffer.ok
    THEN [ok |-> TRUE, value |-> InFlightLimit_new(buffer.value, MAX_IN_FLIGHT)]
    ELSE [ok |-> FALSE, err |-> "Inbound"]

\* The service Bind::bind_service built, inside the route's service.
BoundService(service) ==
    IF service.layer = "InFlightLimit" THEN service.inner.inner
    ELSE service.inner

\* The connect future of a bound service, as Reconnect polls it: what
\* sensor::Connect wraps, with the timeout applied to it, if any.
ConnectOf(bound) ==
    LET c == bound.inner.inner.connect.inner IN
    IF c.layer = "Timeout"
    THEN [timeout |-> Some([dur |-> c.dur, description |-> "-"]), inner |-> c.inner.layer]
    ELSE [timeout |-> None, inner |-> c.layer]

\* InFlightLimit: a request is admitted while fewer than max are in flight.
admits(service, in_flight) ==
    IF service.layer = "InFlightLimit" THEN in_flight < service.max ELSE TRUE

\* A router with no route: nothing bound, no request in flight.
Svc_new ==
    [route |-> None, key |-> None, spawn_ok |-> TRUE, in_flight |-> 0,
     offer |-> None, dp |-> Reconnect_new(0), polled |-> None]

\* The router binds the service of a key it has no route for.
BindService(k, spawn_ok) ==
    /\ svc.route = None
    /\ svc' = [svc EXCEPT !.route = Some(Inbound_bind_service(k, spawn_ok)),
                          !.key = Some(k),
                          !.spawn_ok = spawn_ok]
    /\ UNCHANGED <<tcp_vars, inbound_vars, ctl, bg, ao>>

\* The state after the bound service's poll_ready returned r.
RoutePolled(r) ==
    svc' = [svc EXCEPT !.dp = r.B,
                       !.polled = Some([ret |-> r.ret, err |-> r.err,
                                        at |-> svc.dp.now,
                                        started |-> r.started])]

\* The buffer's worker polls the bound service for readiness: Reconnect
\* begins or polls the connect to the key's address.
RoutePoll ==
    /\ svc.route # None
    /\ svc.route[1].ok
    /\ \E r \in {Reconnect_poll_ready(
                    svc.dp, ConnectOf(BoundService(svc.route[1].value)))} :
          RoutePolled(r)
    /\ UNCHANGED <<tcp_vars, inbound_vars, ctl, bg, ao>>

\* Time passes for the route.
RouteTick ==
    /\ svc.route # None
    /\ svc.dp.now < MaxTime
    /\ svc' = [svc EXCEPT !.dp.now = @ + 1]
    /\ UNCHANGED <<tcp_vars, inbound_vars, ctl, bg, ao>>

\* The pending connect to the destination completes, or is refused.
RouteConnectDone(outcome) ==
    /\ svc.dp.state = "Connecting"
    /\ svc.dp.conn = "pending"
    /\ svc' = [svc EXCEPT !.dp.conn = outcome,
                          !.dp.h2 = IF outcome = "ok" THEN "ready" ELSE "-"]
    /\ UNCHANGED <<tcp_vars, inbound_vars, ctl, bg, ao>>

\* The connection to the destination is lost.
RouteConnectionLost ==
    /\ svc.dp.state = "Connected"
    /\ svc.dp.h2 = "ready"
    /\ svc' = [svc EXCEPT !.dp.h2 = "broken"]
    /\ UNCHANGED <<tcp_vars, inbound_vars, ctl, bg, ao>>

\* A request is offered to the route's service: the limiter admits it to
\* the buffer, or refuses it.
Offer ==
    /\ svc.route # None
    /\ svc.route[1].ok
    /\ svc.in_flight < MAX_IN_FLIGHT + MaxExcess
    /\ svc' = [svc EXCEPT
                 !.offer = Some([at |-> svc.in_flight,
                                 admitted |-> admits(svc.route[1].value,
                                                     svc.in_flight)]),
                 !.in_flight = IF admits(svc.route[1].value, svc.in_flight)
                               THEN @ + 1 ELSE @]
    /\ UNCHANGED <<tcp_vars, inbound_vars, ctl, bg, ao>>

\* The response future of an admitted request completes.
Complete ==
    /\ svc.in_flight > 0
    /\ svc' = [svc EXCEPT !.in_flight = @ - 1, !.offer = None]
    /\ UNCHANGED <<tcp_vars, inbound_vars, ctl, bg, ao>>

BindInit == svc = Svc_new

BindNext ==
    \/ \E k \in Keys : \E spawn_ok \in BOOLEAN : BindService(k, spawn_ok)
    \/ RoutePoll
    \/ RouteTick
    \/ \E outcome \in {"ok", "refused"} : RouteConnectDone(outcome)
    \/ RouteConnectionLost

\* A route whose service was bound.
LimitInit ==
    \E k \in Keys :
        svc = [Svc_new EXCEPT !.route = Some(Inbound_bind_service(k, TRUE)),
                              !.key = Some(k)]

LimitNext == Offer \/ Complete

(* ---------------------- Proxy::serve: the connect --------------------- *)

\* The bound on the 'TCP connection' timeout, in seconds.
TcpConnectTimeout == 2

\* Proxy::new: the timeout every outbound TCP connect is given.
Proxy_new(connect_timeout) ==
    [connect_timeout |-> [dur |-> connect_timeout,
                          description |-> "TCP connection"]]

Proxy == Proxy_new(TcpConnectTimeout)

\* A poll of connect_timeout.apply_to(transport::Connect).connect().
TcpConnect_poll(c) ==
    Timeout_poll(Some(Proxy.connect_timeout), c.inner, c.begun, c.now)

\* Time passes while the connect is pending.
ConnectTick ==
    /\ fut = "connecting"
    /\ conn.connect[1].now < TcpConnectTimeout
    /\ conn' = [conn EXCEPT !.connect[1].now = @ + 1]
    /\ UNCHANGED <<accepted, fut, connects, half, io, obs, tick, default_addr,
                   req, key, ctl, bg, svc, ao>>

\* The original destination answers the connect: accepted or refused.
ConnectAnswer(outcome) ==
    /\ fut = "connecting"
    /\ conn.connect[1].inner = "pending"
    /\ conn' = [conn EXCEPT !.connect[1].inner = outcome]
    /\ UNCHANGED <<accepted, fut, connects, half, io, obs, tick, default_addr,
                   req, key, ctl, bg, svc, ao>>

\* connect.connect() resolves with the outbound stream: and_then runs its
\* closure, Duplex::new.
ConnectOk ==
    /\ fut = "connecting"
    /\ TcpConnect_poll(conn.connect[1]).ret = "Ready"
    /\ fut' = "duplex"
    /\ half' = Duplex_new
    /\ conn' = [conn EXCEPT !.connect = None, !.duplexes = @ + 1]
    /\ UNCHANGED <<accepted, connects, io, obs, tick, default_addr, req, key,
                   ctl, bg, svc, ao>>

\* Mutant of ConnectErr: and_then runs its closure on the error too.
ConnectErr_and_then ==
    /\ fut = "connecting"
    /\ TcpConnect_poll(conn.connect[1]).ret = "Err"
    /\ fut' = "duplex"
    /\ half' = Duplex_new
    /\ conn' = [conn EXCEPT !.connect = None, !.duplexes = @ + 1,
                            !.err = TcpConnect_poll(conn.connect[1]).err]
    /\ UNCHANGED <<accepted, connects, io, obs, tick, default_addr, req, key,
                   ctl, bg, svc, ao>>

\* connect.connect() fails (refused, or the timeout elapsed): map_err maps
\* the error to () and and_then passes it on without running its closure.
ConnectErr ==
    /\ fut = "connecting"
    /\ TcpConnect_poll(conn.connect[1]).ret = "Err"
    /\ fut' = "err"
    /\ conn' = [conn EXCEPT !.connect = None,
                            !.err = TcpConnect_poll(conn.connect[1]).err]
    /\ UNCHANGED <<accepted, connects, half, io, obs, tick, default_addr, req,
                   key, ctl, bg, svc, ao>>

(* --------------------------- specifications --------------------------- *)

TcpInit ==
    /\ accepted \in {Some(c) : c \in ServerCtxs}
    /\ fut = "-"
    /\ connects = 0
    /\ half = Duplex_new
    /\ io = [s \in Sides |-> Socket_new]
    /\ obs = Obs_new
    /\ tick = Tick_new
    /\ conn = Conn_new

InboundQuiet ==
    /\ default_addr = None
    /\ req = [version |-> "HTTP_11", ctx |-> None]
    /\ key = None

Init == TcpInit /\ InboundQuiet /\ ControlInit /\ BindInit

Next ==
    \/ Serve
    \/ ConnectTick
    \/ \E outcome \in {"ok", "refused"} : ConnectAnswer(outcome)
    \/ ConnectOk
    \/ ConnectErr
    \/ Poll
    \/ LoopIteration
    \/ \E s \in Sides : PeerSend(s)
    \/ \E s \in Sides : PeerClose(s)
    \/ \E s \in Sides : Writable(s)
    \/ \E s \in Sides : WriteFault(s)
    \/ \E s \in Sides : ShutdownReady(s)

Spec == Init /\ [][Next]_vars

\* No connection was accepted.
TcpQuiet ==
    /\ accepted = None
    /\ fut = "-"
    /\ connects = 0
    /\ half = Duplex_new
    /\ io = [s \in Sides |-> Socket_new]
    /\ obs = Obs_new
    /\ tick = Tick_new
    /\ conn = Conn_new

InboundInit ==
    /\ default_addr \in Option(Addrs)
    /\ req \in Requests
    /\ key = None
    /\ TcpQuiet
    /\ ControlInit
    /\ BindInit

InboundNext == Recognize \/ NextRequest

SpecInbound == InboundInit /\ [][InboundNext]_vars

InitControl == TcpQuiet /\ InboundQuiet /\ ControlInit /\ BindInit

SpecControl == InitControl /\ [][ControlNext]_vars

SpecOrigin == InitControl /\ [][OriginNext]_vars

InitBind == TcpQuiet /\ InboundQuiet /\ ControlInit /\ BindInit

SpecBind == InitBind /\ [][BindNext]_vars

InitLimit == TcpQuiet /\ InboundQuiet /\ ControlInit /\ LimitInit

SpecLimit == InitLimit /\ [][LimitNext]_vars

\* The scheduling the forwarder relies on: the task is polled again after
\* every readiness change, a spinning loop keeps turning, both peers close,
\* and every pending write and shutdown becomes ready.
Fairness ==
    /\ WF_vars(Poll)
    /\ WF_vars(LoopIteration)
    /\ \A s \in Sides : WF_vars(PeerClose(s))
    /\ \A s \in Sides : WF_vars(Writable(s))
    /\ \A s \in Sides : WF_vars(ShutdownReady(s))

LiveSpec == Init /\ [][Next]_vars /\ Fairness

(* ------------------------------- claims ------------------------------- *)

\* The bytes the peer of socket s has sent so far.
Sent(s) == SubSeq(Stream(s), 1, io[s].sent)

\* The unwritten bytes of direction s: those between read_pos and write_pos.
InFlight(s) ==
    IF half[s].buf = None THEN <<>>
    ELSE SubSeq(half[s].buf[1].buf, half[s].buf[1].read_pos + 1,
                half[s].buf[1].write_pos)

WriteZeroSeen == \E s \in Sides : io[s].wr_zero

\* The session ended well: the future resolved Ready, both peers closed,
\* each direction delivered all the peer sent and shut the other side down.
Completed ==
    /\ fut = "ok"
    /\ tick.result = "Ready"
    /\ \A s \in Sides :
          /\ io[s].fin
          /\ io[Other(s)].tx = Sent(s)
          /\ io[Other(s)].wr_shutdown

\* C1: under the scheduling of Fairness, a Duplex whose sockets never
\* return a zero-byte write eventually resolves Ready, with every byte sent
\* before each EOF forwarded and the opposite write side shut down.
C1_DuplexCompletes == (fut = "duplex") ~> (Completed \/ WriteZeroSeen)

\* C2: in each direction the bytes written to the destination followed by
\* the bytes between read_pos and write_pos are exactly the bytes read from
\* the source (so the written bytes are a prefix of the read ones), and once
\* the future has resolved Ready the two are equal in both directions.
C2_BytesPreserved ==
    \A s \in Sides :
        /\ obs.rd[s] = io[Other(s)].tx \o InFlight(s)
        /\ obs.rd[s] \o io[s].rx = Sent(s)
        /\ tick.result = "Ready" => obs.rd[s] = io[Other(s)].tx

\* C2 witness: the future resolved Ready after both directions carried bytes.
C2_Witness ==
    /\ tick.result = "Ready"
    /\ Len(io["out"].tx) = MaxBytes
    /\ Len(io["in"].tx) > 0

C4_EofHandling ==
    \A s \in Sides :
        /\ ~obs.read_after_eof[s]
        /\ ~obs.write_after_eof[s]
        /\ ~obs.sd_unflushed[Other(s)]
        /\ obs.eof[s] => /\ half[s].buf = None
                         /\ io[Other(s)].tx = obs.rd[s]
                         /\ obs.rd[s] = Sent(s)
        /\ io[Other(s)].wr_shutdown => /\ obs.eof[s]
                                       /\ io[Other(s)].tx = obs.rd[s]
        /\ half[Other(s)].is_shutdown => io[Other(s)].wr_shutdown

\* C4 witness: a direction saw EOF after carrying bytes and its destination
\* was shut down, while the opposite direction, still open, carried bytes too.
C4_Witness ==
    \E s \in Sides :
        /\ obs.eof[s]
        /\ obs.rd[s] # <<>>
        /\ io[Other(s)].wr_shutdown
        /\ ~obs.eof[Other(s)]
        /\ obs.rd[Other(s)] # <<>>

\* Direction s is finished and the opposite one is still open: s saw EOF and
\* the other socket's write side was shut down, the other saw no EOF yet.
HalfClosed(s) ==
    /\ fut = "duplex"
    /\ obs.eof[s]
    /\ half[Other(s)].is_shutdown
    /\ io[Other(s)].wr_shutdown
    /\ ~obs.eof[Other(s)]

\* C5: once one direction is finished and the opposite one is still open,
\* under the scheduling of Fairness every byte that arrives on the open
\* direction's source is eventually written to its destination (unless a
\* socket returns a zero-byte write).
C5_HalfCloseIndependent ==
    \A s \in Sides : \A n \in 1..MaxBytes :
        (HalfClosed(s) /\ io[Other(s)].sent >= n)
            ~> (Len(io[s].tx) >= n \/ WriteZeroSeen)

\* C6: a write that returns 0 while bytes remain makes that same poll
\* resolve the future with the error WriteZero; the session ends with Err,
\* and when the write was one of the first direction (in->out) the second
\* direction was not polled in that poll.
C6_WriteZero ==
    /\ (\E s \in Sides : obs.zero_write[s]) =>
          /\ fut = "err"
          /\ tick.result = "Err"
          /\ tick.err = "WriteZero"
    /\ obs.zero_write["in"] => tick.polled = <<"in">>
    /\ obs.zero_write["out"] => tick.polled = <<"in", "out">>
    /\ \A s \in Sides : obs.zero_write[s] => InFlight(s) # <<>>

\* C6 witness: the first direction's write returned 0 with bytes remaining.
C6_Witness ==
    /\ obs.zero_write["in"]
    /\ InFlight("in") # <<>>
    /\ fut = "err"

\* C7: serving a connection whose original destination is absent or is the
\* listener's own address yields a future that is complete with Ok at once,
\* starts no connect and touches no socket; and a session for which no
\* connect was started never reads or writes anything.
C7_ServeWithoutDestination ==
    /\ [][(/\ accepted # None
           /\ accepted' = None
           /\ \/ accepted[1].orig_dst = None
              \/ accepted[1].orig_dst = Some(accepted[1].local))
          => (/\ fut' = "ok"
              /\ connects' = 0
              /\ <<half, io, obs, tick>>' = <<half, io, obs, tick>>)]_vars
    /\ [](connects = 0 =>
             /\ fut \in {"-", "ok"}
             /\ io = [s \in Sides |-> Socket_new]
             /\ obs = Obs_new
             /\ tick = Tick_new)

\* C7 witness: a connection was served and dropped.
C7_Witness ==
    /\ accepted = None
    /\ fut = "ok"
    /\ connects = 0

(* --------------------------- claims: inbound -------------------------- *)

\* The protocol tag of a request's HTTP version.
TagOf(version) == IF version = "HTTP_2" THEN "Http2" ELSE "Http1"

Recognized == key # None

\* C8: a request whose Server Context has an original destination a other
\* than ctx.local is recognized as Some((a, tag)), whatever default_addr is.
C8_OrigDstRecognized ==
    (/\ Recognized
     /\ req.ctx # None
     /\ req.ctx[1].orig_dst # None
     /\ req.ctx[1].orig_dst[1] # req.ctx[1].local)
    => key[1] = Some(<<req.ctx[1].orig_dst[1], TagOf(req.version)>>)

\* C8 witness: an HTTP/2 request with a usable original destination was
\* recognized while another default address was configured.
C8_Witness ==
    /\ Recognized
    /\ req.version = "HTTP_2"
    /\ req.ctx # None
    /\ req.ctx[1].orig_dst # None
    /\ req.ctx[1].orig_dst[1] # req.ctx[1].local
    /\ default_addr # None
    /\ default_addr # req.ctx[1].orig_dst

\* C9: a request whose Server Context has no original destination, or the
\* local address as original destination, is recognized as the default:
\* default_addr.map(|addr| (addr, tag)), None when default_addr is unset.
C9_FallsThroughToDefault ==
    (/\ Recognized
     /\ req.ctx # None
     /\ \/ req.ctx[1].orig_dst = None
        \/ req.ctx[1].orig_dst = Some(req.ctx[1].local))
    => key[1] = IF default_addr = None THEN None
                ELSE Some(<<default_addr[1], TagOf(req.version)>>)

\* C9 witness: a looping original destination fell through to a default.
C9_Witness ==
    /\ Recognized
    /\ req.ctx # None
    /\ req.ctx[1].orig_dst = Some(req.ctx[1].local)
    /\ default_addr # None
    /\ key[1] # None

\* C10 as claimed: with a Server Context, the recognized address is never
\* ctx.local, whatever default_addr is.
C10_NeverLocal ==
    (Recognized /\ req.ctx # None /\ key[1] # None)
    => key[1][1][1] # req.ctx[1].local

\* C10 amended: with a Server Context, the recognized address is ctx.local
\* only when default_addr itself is ctx.local and the request fell through
\* to it; an original destination equal to ctx.local is never what is used.
C10_LocalOnlyByDefault ==
    (Recognized /\ req.ctx # None /\ key[1] # None
        /\ key[1][1][1] = req.ctx[1].local)
    => /\ default_addr = Some(req.ctx[1].local)
       /\ \/ req.ctx[1].orig_dst = None
          \/ req.ctx[1].orig_dst = Some(req.ctx[1].local)

\* C10 witness: the original destination is the local address, and the
\* recognized key is another address.
C10_Witness ==
    /\ Recognized
    /\ req.ctx # None
    /\ req.ctx[1].orig_dst = Some(req.ctx[1].local)
    /\ key[1] # None
    /\ key[1][1][1] # req.ctx[1].local

\* C11 as claimed: a request without a Server Context is recognized as
\* default_addr.map(|a| (a, HTTP/1)), whatever the request is.
C11_NoCtxDefaultHttp1 ==
    (Recognized /\ req.ctx = None)
    => key[1] = IF default_addr = None THEN None
                ELSE Some(<<default_addr[1], "Http1">>)

\* C11 amended: a request without a Server Context is recognized as
\* default_addr.map(|a| (a, tag)), the tag being that of the request's
\* version: HTTP/1 unless the request is an HTTP/2 one.
C11_NoCtxDefault ==
    (Recognized /\ req.ctx = None)
    => key[1] = IF default_addr = None THEN None
                ELSE Some(<<default_addr[1], TagOf(req.version)>>)

\* C11 witness: an HTTP/1.1 request without a Server Context was recognized
\* as the configured default, tagged HTTP/1.
C11_Witness ==
    /\ Recognized
    /\ req.ctx = None
    /\ req.version = "HTTP_11"
    /\ default_addr # None
    /\ key[1] = Some(<<default_addr[1], "Http1">>)

\* C12: the tag of a recognized key is HTTP/2 exactly when the request's
\* version is HTTP/2 and HTTP/1 for every other version, with or without a
\* Server Context and whatever address was chosen.
C12_TagFromVersion ==
    (Recognized /\ key[1] # None)
    => /\ key[1][1][2] \in {"Http1", "Http2"}
       /\ key[1][1][2] = "Http2" <=> req.version = "HTTP_2"

\* C12 witness: an HTTP/2 request without a Server Context was tagged HTTP/2.
C12_Witness ==
    /\ Recognized
    /\ req.version = "HTTP_2"
    /\ req.ctx = None
    /\ key[1] # None
    /\ key[1][1][2] = "Http2"

(* ---------------------- claims: controller client --------------------- *)

\* The calls made on the controller client by the last poll of the
\* background future, and the readiness checks among them.
Calls == {bg.calls[i] : i \in DOMAIN bg.calls}

ReadyChecks == {c \in Calls : c.op = "poll_ready"}

\* C13: a poll_ready made while Backoff waits (the inner's poll_ready had
\* returned Err) and before the timer's instant returns NotReady without
\* polling the inner, and stays waiting; one made once the timer's instant
\* has come polls the inner in that same call and leaves waiting cleared,
\* unless that poll of the inner failed again. Waiting is entered exactly by
\* a failed poll of the inner.
C13_BackoffWaiting ==
    \A c \in ReadyChecks :
        /\ (c.waiting /\ c.at < c.timer.when) =>
              /\ c.ret = "NotReady"
              /\ c.inner = "-"
              /\ ~c.started
              /\ c.after.waiting
              /\ c.after.timer.when = c.timer.when
        /\ (c.waiting /\ c.at >= c.timer.when) =>
              /\ c.inner \in {"Ready", "NotReady", "Err"}
              /\ c.after.waiting <=> c.inner = "Err"
        /\ c.inner = "Err" => c.after.waiting
        /\ c.waiting => c.last_err >= 0

\* C13 witness: a poll_ready found Backoff waiting with the timer fired,
\* polled the inner, which began a new connect, and left waiting cleared.
C13_Witness ==
    \E c \in ReadyChecks :
        /\ c.waiting
        /\ c.at >= c.timer.when
        /\ c.inner = "NotReady"
        /\ c.started
        /\ ~c.after.waiting

\* C14: once the inner's poll_ready has returned Err at time t, no call on
\* the client polls the inner or begins a connect attempt before t + 5 s,
\* so two consecutive failures are at least 5 s apart; Backoff::call never
\* polls the inner nor begins an attempt.
C14_BackoffFloor ==
    \A c \in Calls :
        /\ (c.last_err >= 0 /\ (c.inner \in {"Ready", "NotReady", "Err"} \/ c.started))
              => c.at >= c.last_err + 5
        /\ (c.inner = "Err" /\ c.last_err >= 0) => c.at - c.last_err >= 5
        /\ c.op = "call" => ~c.started /\ c.inner = "call"

\* C14 witness: the inner failed a second time, after an earlier failure.
C14_Witness ==
    \E c \in ReadyChecks :
        /\ c.inner = "Err"
        /\ c.last_err >= 0
        /\ c.after.waiting

\* C15: a poll_ready that returns NotReady because Backoff waits for its
\* timer - it found the timer not fired, or the inner just failed and the
\* timer was re-armed - leaves the task registered with that timer.
C15_BackoffWakeup ==
    \A c \in ReadyChecks :
        (c.ret = "NotReady" /\ c.inner \in {"-", "Err"}) => c.after.timer.task

\* C16: every poll of the background future invokes disco.poll_rpc and then
\* telemetry.poll_rpc, each once, whatever the first one met, and returns
\* NotReady; the future never resolves.
C16_BackgroundPoll ==
    /\ bg.ret \in {"-", "NotReady"}
    /\ bg.polled =>
          /\ bg.ret = "NotReady"
          /\ bg.called = <<"disco", "telemetry">>
          /\ Len(bg.rets) = 2
    /\ ~bg.polled => bg.called = <<>>

\* C16 witness: the discovery loop's request failed on a client that was
\* not connected, and the telemetry loop still checked the client.
C16_Witness ==
    /\ bg.polled
    /\ bg.rets[1] = "NotReadyError"
    /\ bg.rets[2] \in {"Ready", "NotReady"}

\* C17: the controller connect is wrapped in the 3-second "discovery
\* connection" timeout: a poll of the inner that finds the connect attempt
\* still pending 3 s or more after it began gets the timeout error from
\* Reconnect, which is logged and makes Backoff wait until 5 s later; an
\* attempt is never left pending by a poll made 3 s after it began.
C17_ControllerConnectDeadline ==
    /\ Client.connect.timeout =
          Some([dur |-> 3, description |-> "discovery connection"])
    /\ Client.connect.inner = "LookupAddressAndConnect"
    /\ \A c \in ReadyChecks :
          (/\ c.inner # "-"
           /\ c.state = "Connecting"
           /\ c.conn = "pending"
           /\ c.at >= c.begun + 3)
          => /\ c.inner = "Err"
             /\ c.err = "Connect(timed out)"
             /\ c.logged = <<"Connect(timed out)">>
             /\ c.ret = "NotReady"
             /\ c.after.waiting
             /\ c.after.timer.when = c.at + 5

\* C17 witness: a connect attempt timed out and Backoff began to wait.
C17_Witness ==
    \E c \in ReadyChecks :
        /\ c.state = "Connecting"
        /\ c.conn = "pending"
        /\ c.err = "Connect(timed out)"
        /\ c.after.waiting

(* -------------------------- claims: binding --------------------------- *)

\* C18: at most 10 000 requests admitted by the limiter of a route's service
\* are incomplete at any time, and a request offered while 10 000 are
\* outstanding is not admitted.
C18_InFlightCap ==
    /\ svc.in_flight <= 10000
    /\ (svc.offer # None /\ svc.offer[1].at >= 10000) => ~svc.offer[1].admitted

\* C18 witness: a request was offered with 10 000 outstanding, and refused.
C18_Witness ==
    /\ svc.in_flight = 10000
    /\ svc.offer # None
    /\ svc.offer[1].at = 10000
    /\ ~svc.offer[1].admitted

\* C19: when the buffer's worker cannot be spawned, bind_service returns
\* Err(BufferSpawnError::Inbound) and no service; otherwise it returns Ok
\* with InFlightLimit(Buffer(s)), s being the service Bind::bind_service
\* built for the key's address and protocol.
C19_BindServiceResult ==
    svc.route # None =>
        IF svc.spawn_ok
        THEN /\ svc.route[1].ok
             /\ svc.route[1].value.layer = "InFlightLimit"
             /\ svc.route[1].value.inner.layer = "Buffer"
             /\ svc.route[1].value.inner.inner.layer = "Reconnect"
             /\ svc.route[1].value.inner.inner.inner.inner.protocol = svc.key[1][2]
             /\ ConnectOf(svc.route[1].value.inner.inner).inner = "transport::Connect"
             /\ \E a \in Addrs :
                   /\ a = svc.key[1][1]
                   /\ svc.route[1].value.inner.inner
                         = Bind_bind_service(a, svc.key[1][2])
        ELSE svc.route[1] = [ok |-> FALSE, err |-> "Inbound"]

\* C19 witness: the worker could not be spawned and no service was bound.
C19_Witness ==
    /\ svc.route # None
    /\ ~svc.spawn_ok
    /\ ~svc.route[1].ok

\* C20: a poll of a bound service never leaves its connect attempt pending
\* once the configured connect deadline has elapsed since the attempt began:
\* the connect then fails with the timed-out error.
C20_DataPlaneConnectDeadline ==
    (/\ svc.polled # None
     /\ svc.dp.state = "Connecting"
     /\ svc.dp.conn = "pending")
    => svc.polled[1].at < svc.dp.started + ConnectDeadline

(* ------------------------- claims: AddOrigin -------------------------- *)

\* C21: every request passed to AddOrigin::call reaches the inner service
\* exactly once, with the configured scheme and authority, the original
\* path and query, and its method, headers and body unchanged; passing the
\* resulting request through AddOrigin again yields the same request.
C21_AddOriginRoundTrip ==
    ao.req # None =>
        /\ Len(ao.sent) = 1
        /\ ao.sent[1].uri.scheme = "http"
        /\ ao.sent[1].uri.authority = "controller:8086"
        /\ ao.sent[1].uri.path_and_query = ao.req[1].uri.path_and_query
        /\ ao.sent[1].method = ao.req[1].method
        /\ ao.sent[1].headers = ao.req[1].headers
        /\ ao.sent[1].body = ao.req[1].body
        /\ AddOrigin_call(AddOrigin_new, ao.sent[1]).sent = ao.sent

\* C22: the expect("valid uri") of AddOrigin::call is never triggered,
\* whatever the form of the request's URI.
C22_AlwaysValidUri == ~ao.panicked

(* ---------------------- claims: forwarder, part 2 --------------------- *)

\* C23: every call of Duplex::poll returns: no call of copy_into is left
\* turning in its loop without end.
C23_PollTerminates == fut # "spin" /\ tick.result # "Diverge"

\* C24: in a poll whose first direction (in->out) returned Ready or
\* NotReady the second direction (out->in) was polled too; of the results
\* the first direction can return, only Err ends the poll without the
\* second direction being polled.
C24_BothDirectionsPolled ==
    /\ tick.ret["in"] \in {"Ready", "NotReady"} => tick.polled = <<"in", "out">>
    /\ (tick.polled = <<"in">> /\ tick.result # "Diverge") =>
          /\ tick.ret["in"] = "Err"
          /\ tick.result = "Err"
          /\ tick.ret["out"] = "-"

\* C24 witness: in one poll the first direction returned NotReady and the
\* second saw its EOF, wrote what it had read and shut the accepted socket
\* down.
C24_Witness ==
    /\ tick.ret["in"] = "NotReady"
    /\ tick.ret["out"] = "Ready"
    /\ io["in"].tx # <<>>
    /\ io["in"].wr_shutdown

C26_CopyBufIndices ==
    \A s \in Sides :
        /\ ~obs.assert_failed[s]
        /\ half[s].buf # None =>
              /\ Len(half[s].buf[1].buf) = BufLen
              /\ 0 <= half[s].buf[1].read_pos
              /\ half[s].buf[1].read_pos <= half[s].buf[1].write_pos
              /\ half[s].buf[1].write_pos <= BufLen

\* C26 witness: a buffer was filled to its end and partly written, so that
\* advance_mut and advance have both acted on it, while bytes have already
\* been delivered the other way.
C26_Witness ==
    \E s \in Sides :
        /\ half[s].buf # None
        /\ half[s].buf[1].write_pos = BufLen
        /\ half[s].buf[1].read_pos > 0
        /\ half[s].buf[1].read_pos < half[s].buf[1].write_pos
        /\ io[s].tx # <<>>

\* C27: a step reads from a source only if every byte that was buffered
\* and unwritten in that direction before the step has been written during
\* it, so nothing is read while bytes remain that the destination does not
\* accept; the unwritten bytes of a direction never exceed the buffer.
C27_Backpressure ==
    /\ [][\A s \in Sides :
             obs'.rd[s] # obs.rd[s] =>
                 Len(io'[Other(s)].tx) >= Len(io[Other(s)].tx) + Len(InFlight(s))]_vars
    /\ [](\A s \in Sides : Len(InFlight(s)) <= BufLen)

\* C27 witness: after a poll that returned NotReady a direction holds
\* unwritten bytes, its destination accepts nothing, and a byte received on
\* its source has been left unread.
C27_Witness ==
    /\ tick.result = "NotReady"
    /\ InFlight("in") # <<>>
    /\ io["out"].wcap = 0
    /\ io["in"].rx # <<>>
    /\ obs.rd["in"] \o io["in"].rx = Sent("in")

\* C28: Backoff::poll_ready returns only Ready or NotReady: when the
\* inner's poll_ready returned Err, the call returns NotReady, leaves
\* waiting set and the timer re-armed to the instant of the call plus
\* wait_dur.
C28_BackoffAbsorbsErrors ==
    \A c \in ReadyChecks :
        /\ c.ret \in {"Ready", "NotReady"}
        /\ c.inner = "Err" =>
              /\ c.ret = "NotReady"
              /\ c.after.waiting
              /\ c.after.timer.when = c.at + Client.wait_dur

\* C28 witness: a connected client's connection failed, the inner returned
\* that error, and Backoff, which was not waiting, absorbed it.
C28_Witness ==
    \E c \in ReadyChecks :
        /\ c.inner = "Err"
        /\ c.err = "Inner"
        /\ c.state = "Connected"
        /\ ~c.waiting
        /\ c.ret = "NotReady"

\* C29: every error Reconnect's poll_ready returns is logged exactly once,
\* by the call that met it, and reaches Backoff as it was raised; a call
\* whose inner returned Ready or NotReady, or that did not poll the inner,
\* logs nothing; an error is logged no sooner than wait_dur after the
\* previous one.
C29_ErrorsLoggedOnce ==
    \A c \in Calls :
        /\ c.raised # "-" =>
              /\ c.inner = "Err"
              /\ c.err = c.raised
              /\ c.logged = <<c.raised>>
        /\ c.inner = "Err" => c.raised # "-"
        /\ c.inner # "Err" => c.logged = <<>>
        /\ (c.logged # <<>> /\ c.last_err >= 0) =>
              c.at >= c.last_err + Client.wait_dur

\* C29 witness: a refused connect was logged, an earlier error having been
\* logged before.
C29_Witness ==
    \E c \in ReadyChecks :
        /\ c.raised = "Connect(refused)"
        /\ c.logged = <<"Connect(refused)">>
        /\ c.last_err >= 0

\* C30: a poll_ready whose inner returned Ready or NotReady returns that
\* result, leaves waiting cleared and the timer as it was; a call is
\* forwarded to the inner whatever the state, waiting or not, and leaves
\* waiting and the timer as they were.
C30_BackoffPassThrough ==
    \A c \in Calls :
        /\ (c.op = "poll_ready" /\ c.inner \in {"Ready", "NotReady"}) =>
              /\ c.ret = c.inner
              /\ ~c.after.waiting
              /\ c.after.timer = c.timer
        /\ c.op = "call" =>
              /\ c.inner = "call"
              /\ c.after.waiting = c.waiting
              /\ c.after.timer = c.timer

\* C30 witness: a request was made on a client that was waiting, and in the
\* same poll a poll_ready found the timer fired, polled the inner and
\* passed its NotReady through.
C30_Witness ==
    /\ \E c \in Calls : c.op = "call" /\ c.waiting /\ c.inner = "call"
    /\ \E c \in ReadyChecks :
          c.waiting /\ c.inner = "NotReady" /\ c.ret = "NotReady"

(* ------------------------ claims: Proxy::serve ------------------------ *)

\* The connect future of Proxy::serve is there and a poll of it returns Err:
\* the connect was refused, or it is pending when the timeout has elapsed.
TcpConnectFails ==
    /\ fut = "connecting"
    /\ TcpConnect_poll(conn.connect[1]).ret = "Err"

\* C31: when a poll of the connect future finds the connect to the original
\* destination refused, or pending once the 'TCP connection' timeout has
\* elapsed, the future of serve resolves with Err and with nothing else,
\* and that step builds no Duplex, starts no connect and touches no socket; a future that resolved with Err stays so and starts no
\* further connect; and as long as no Duplex was built no byte has been read
\* from or written to a socket, and at most one connect was started.
C31_ConnectFailure ==
    /\ [][TcpConnectFails =>
             /\ fut' \in {"connecting", "err"}
             /\ connects' = connects
             /\ conn'.duplexes = conn.duplexes
             /\ half' = half
             /\ obs' = obs
             /\ tick' = tick
             /\ \A s \in Sides : io'[s].tx = io[s].tx]_vars
    /\ [][fut = "err" =>
             /\ fut' = "err"
             /\ connects' = connects
             /\ conn'.duplexes = conn.duplexes]_vars
    /\ [](conn.duplexes = 0 =>
             /\ fut \in {"-", "ok", "connecting", "err"}
             /\ connects <= 1
             /\ obs = Obs_new
             /\ tick = Tick_new
             /\ \A s \in Sides : io[s].tx = <<>> /\ ~io[s].wr_shutdown)
    /\ [](conn.err # "-" => fut = "err" /\ conn.duplexes = 0 /\ connects = 1)

\* C31 witness: the connect timed out while the accepted socket's peer had
\* sent a byte and closed; the future resolved with Err and the byte is
\* still unread.
C31_Witness ==
    /\ fut = "err"
    /\ conn.err = "Connect(timed out)"
    /\ conn.duplexes = 0
    /\ connects = 1
    /\ io["in"].rx # <<>>
    /\ io["in"].fin
    /\ obs.rd["in"] = <<>>

====
